---- MODULE Spec2Model ----
(***************************************************************************)
(* Model of src/app.py: a Telegram bot that extracts a date, an invoice    *)
(* number and a cost price from a notification text, replies with one      *)
(* message per field (each with an optional "Copy Value" button), and      *)
(* rewrites a reply to a confirmed form when its button is tapped.         *)
(*                                                                         *)
(* Text is a sequence of characters; a character is a one-character        *)
(* string, except the non-ASCII glyphs and the backtick, which are named.  *)
(* An optional value (Python None or a value) is the empty sequence or a   *)
(* one-element sequence.                                                   *)
(***************************************************************************)
EXTENDS FiniteSets, Integers, Naturals, Sequences, TLC

\* ---------------------------------------------------------------- characters

\* U+17DB KHMER CURRENCY SYMBOL RIEL, one character of the text.
Riel == "RIEL"

\* U+2705 WHITE HEAVY CHECK MARK, one character of the text.
CheckMark == "CHECK"

\* U+0060 GRAVE ACCENT, the Markdown code-span delimiter.
Backtick == "BACKTICK"

\* U+1F4CB CLIPBOARD, one character of the button label.
Clipboard == "CLIPBOARD"

\* Characters matched by \d.
Digits == {"0", "1", "2", "3", "4", "5", "6", "7", "8", "9"}

\* Characters matched by [A-Z].
UpperLetters ==
    {"A", "B", "C", "D", "E", "F", "G", "H", "I", "J", "K", "L", "M",
     "N", "O", "P", "Q", "R", "S", "T", "U", "V", "W", "X", "Y", "Z"}

\* Characters matched by \s.
Whitespace == {" ", "\n", "\t"}

\* The decimal digit characters by value, for strftime's zero padding.
DigitChars == <<"0", "1", "2", "3", "4", "5", "6", "7", "8", "9">>

\* ------------------------------------------------------------ string helpers

\* Python None, and Some(v) for a present value.
None == <<>>
Some(v) == <<v>>

\* s[from:] with a 1-based index.
Tail1(s, from) == SubSeq(s, from, Len(s))

\* sub in s
Contains(s, sub) ==
    \E i \in 1..(Len(s) - Len(sub) + 1) : SubSeq(s, i, i + Len(sub) - 1) = sub

\* The least element of a non-empty set of integers.
Min(S) == CHOOSE x \in S : \A y \in S : x <= y

\* The greatest element of a non-empty set of integers.
Max(S) == CHOOSE x \in S : \A y \in S : x >= y

\* The length of the longest run of characters of class C that starts at p.
RECURSIVE Run(_, _, _)
Run(t, p, C) ==
    IF p <= Len(t) /\ t[p] \in C THEN 1 + Run(t, p + 1, C) ELSE 0

\* ------------------------------------------------------------------ literals

SENTINEL ==
    <<"P", "a", "t", "t", "e", "r", "n", " ", "n", "o", "t", " ",
      "f", "o", "u", "n", "d", ".">>

COPY_VALUE == <<"c", "o", "p", "y", "_", "v", "a", "l", "u", "e">>

DATE_LABEL ==
    <<"O", "r", "i", "g", "i", "n", "a", "l", " ", "M", "e", "s", "s", "a",
      "g", "e", " ", "D", "a", "t", "e">>

METADATA_TAG == <<"(", "M", "e", "t", "a", "d", "a", "t", "a", ")">>

FALLBACK_TAG == <<"(", "F", "a", "l", "l", "b", "a", "c", "k", ")">>

INVOICE_LABEL ==
    <<"I", "n", "v", "o", "i", "c", "e", " ", "N", "u", "m", "b", "e", "r">>

COST_LABEL == <<"C", "o", "s", "t", " ", "P", "r", "i", "c", "e">>

CONFIRM_LINE ==
    <<CheckMark, " ", "*", "*", "E", "x", "t", "r", "a", "c", "t", "e", "d",
      " ", "V", "a", "l", "u", "e", "*", "*">>

BUTTON_LABEL ==
    <<Clipboard, " ", "C", "o", "p", "y", " ", "V", "a", "l", "u", "e">>

\* ------------------------------------------------------- regular expressions

\* INVOICE_PATTERN = re.compile(r'P-([A-Z0-9]+)'): the positions where the
\* pattern matches.
InvoiceStarts(t) ==
    {s \in 1..Len(t) :
        /\ s + 2 <= Len(t)
        /\ t[s] = "P"
        /\ t[s + 1] = "-"
        /\ t[s + 2] \in UpperLetters \cup Digits}
\* INVOICE_PATTERN_search for the pattern P-(\S+): the group runs to the next
\* whitespace.
INVOICE_PATTERN_search_NonSpace(t) ==
    LET starts == {s \in 1..Len(t) :
                      /\ s + 2 <= Len(t)
                      /\ t[s] = "P"
                      /\ t[s + 1] = "-"
                      /\ t[s + 2] \notin Whitespace}
    IN  IF starts = {} THEN None
        ELSE LET s == Min(starts)
                 e == Min({k \in (s + 2)..Len(t) :
                              k = Len(t) \/ t[k + 1] \in Whitespace})
             IN  Some(SubSeq(t, s + 2, e))

\* INVOICE_PATTERN.search(text): None, or group(1) of the leftmost match; the
\* greedy + takes the whole run of [A-Z0-9].
INVOICE_PATTERN_search(t) ==
    IF InvoiceStarts(t) = {} THEN None
    ELSE LET s == Min(InvoiceStarts(t))
             n == Run(t, s + 2, UpperLetters \cup Digits)
         IN  Some(SubSeq(t, s + 2, s + 1 + n))

\* (?:,\d{3}) matches at p.
GroupAt(t, p) ==
    /\ p + 3 <= Len(t)
    /\ t[p] = ","
    /\ \A i \in (p + 1)..(p + 3) : t[i] \in Digits

\* The greatest number of times (?:,\d{3}) matches in a row from p.
RECURSIVE GroupRun(_, _)
GroupRun(t, p) == IF GroupAt(t, p) THEN 1 + GroupRun(t, p + 4) ELSE 0

\* The end (exclusive) of group 1 for the choice <<n1, k, m>>: n1 leading
\* digits, k comma groups, a decimal part of m digits (m = 0: no decimal part).
CostGroupEnd(s, c) ==
    s + c[1] + 4 * c[2] + (IF c[3] > 0 THEN c[3] + 1 ELSE 0)

\* The lengths m the decimal part (?:\.\d+)? can take at p: 0 for the empty
\* alternative, and every non-empty prefix of the digits after a point.
DecimalLengths(t, p) ==
    IF p <= Len(t) /\ t[p] = "." THEN 0..Run(t, p + 1, Digits) ELSE {0}

\* \s*<riel> matches at q.
RielAt(t, q) ==
    \E w \in 0..Run(t, q, Whitespace) : q + w <= Len(t) /\ t[q + w] = Riel

\* The choices <<n1, k, m>> of the backtracking matcher for which
\* COST_PRICE_PATTERN matches at s.
CostChoices(t, s) ==
    UNION {UNION {{<<n1, k, m>> :
                      m \in {d \in DecimalLengths(t, s + n1 + 4 * k) :
                                RielAt(t, CostGroupEnd(s, <<n1, k, d>>))}} :
                  k \in 0..GroupRun(t, s + n1)} :
           n1 \in {n \in 1..3 : n <= Run(t, s, Digits)}}

\* The matcher tries \d{1,3}, then (?:,\d{3})*, then (?:\.\d+)? greedily, the
\* longer alternative first: c is tried before d.
TriedBefore(c, d) ==
    \/ c[1] > d[1]
    \/ c[1] = d[1] /\ c[2] > d[2]
    \/ c[1] = d[1] /\ c[2] = d[2] /\ c[3] > d[3]

\* COST_PRICE_PATTERN = re.compile(r'(\d{1,3}(?:,\d{3})*(?:\.\d+)?)\s*<riel>'):
\* the positions where the pattern matches.
CostStarts(t) == {s \in 1..Len(t) : CostChoices(t, s) # {}}
\* COST_PRICE_PATTERN_search that keeps the last match instead of the first,
\* as findall(text)[-1] does.
COST_PRICE_PATTERN_search_Last(t) ==
    IF CostStarts(t) = {} THEN None
    ELSE LET s == Max(CostStarts(t))
             c == CHOOSE c \in CostChoices(t, s) :
                     \A d \in CostChoices(t, s) : d = c \/ TriedBefore(c, d)
         IN  Some(SubSeq(t, s, CostGroupEnd(s, c) - 1))

\* COST_PRICE_PATTERN.search(text): None, or group(1) of the leftmost match.
COST_PRICE_PATTERN_search(t) ==
    IF CostStarts(t) = {} THEN None
    ELSE LET s == Min(CostStarts(t))
             c == CHOOSE c \in CostChoices(t, s) :
                     \A d \in CostChoices(t, s) : d = c \/ TriedBefore(c, d)
         IN  Some(SubSeq(t, s, CostGroupEnd(s, c) - 1))

\* StripCommas that leaves the commas in.
StripCommas_Keeps(s) == s

\* price_str_with_commas.replace(',', '')
RECURSIVE StripCommas(_)
StripCommas(s) ==
    IF s = <<>> THEN <<>>
    ELSE IF Head(s) = "," THEN StripCommas(Tail(s))
    ELSE <<Head(s)>> \o StripCommas(Tail(s))

\* re.match(r'(\*\*.*?\*\*)', original_text): the ends of the candidate
\* matches; "." does not match a newline.
HeaderEnds(t) ==
    {e \in 4..Len(t) :
        /\ t[1] = "*" /\ t[2] = "*"
        /\ t[e - 1] = "*" /\ t[e] = "*"
        /\ \A i \in 3..(e - 2) : t[i] # "\n"}

\* header_match.group(1) if header_match else "": the lazy .*? takes the
\* shortest match.
HeaderOf(t) ==
    IF HeaderEnds(t) = {} THEN <<>>
    ELSE SubSeq(t, 1, Min(HeaderEnds(t)))

\* SplitFirstPipe with the pipe left at the head of the second part.
SplitFirstPipe_KeepsPipe(s) ==
    LET pipes == {i \in 1..Len(s) : s[i] = "|"}
    IN  IF pipes = {} THEN <<s>>
        ELSE <<SubSeq(s, 1, Min(pipes) - 1), Tail1(s, Min(pipes))>>

\* query.data.split('|', 1): split on the first pipe only.
SplitFirstPipe(s) ==
    LET pipes == {i \in 1..Len(s) : s[i] = "|"}
    IN  IF pipes = {} THEN <<s>>
        ELSE <<SubSeq(s, 1, Min(pipes) - 1), Tail1(s, Min(pipes) + 1)>>

\* ----------------------------------------------------------------- strftime

\* %m, %d, %H, %M, %S: two digits, zero padded.
Pad2(n) == <<DigitChars[(n \div 10) + 1], DigitChars[(n % 10) + 1]>>

\* %Y: four digits.
Pad4(n) == Pad2(n \div 100) \o Pad2(n % 100)

\* dt.strftime("%Y-%m-%d %H:%M:%S")
Strftime(dt) ==
    Pad4(dt.year) \o <<"-">> \o Pad2(dt.month) \o <<"-">> \o Pad2(dt.day)
    \o <<" ">> \o Pad2(dt.hour) \o <<":">> \o Pad2(dt.minute)
    \o <<":">> \o Pad2(dt.second)

\* ------------------------------------------------ handle_notification_message

\* DateResult with the two labels exchanged.
DateResult_LabelsSwapped(msg) ==
    IF msg.forward_date # None
    THEN <<DATE_LABEL \o <<" ">> \o FALLBACK_TAG,
           Strftime(msg.forward_date[1])>>
    ELSE <<DATE_LABEL \o <<" ">> \o METADATA_TAG, Strftime(msg.date)>>

\* The date result: message.forward_date when it is set, message.date
\* otherwise, with the label that names the source.
DateResult(msg) ==
    IF msg.forward_date # None
    THEN <<DATE_LABEL \o <<" ">> \o METADATA_TAG,
           Strftime(msg.forward_date[1])>>
    ELSE <<DATE_LABEL \o <<" ">> \o FALLBACK_TAG, Strftime(msg.date)>>

\* The invoice result: group(1) of the first match, or the sentinel.
InvoiceResult(text) ==
    LET invoice_match == INVOICE_PATTERN_search(text)
    IN  IF invoice_match # None
        THEN <<INVOICE_LABEL, invoice_match[1]>>
        ELSE <<INVOICE_LABEL, SENTINEL>>

\* The cost result: group(1) of the first match without its commas, or the
\* sentinel.
CostResult(text) ==
    LET cost_match == COST_PRICE_PATTERN_search(text)
    IN  IF cost_match # None
        THEN <<COST_LABEL, StripCommas(cost_match[1])>>
        ELSE <<COST_LABEL, SENTINEL>>

\* messages_to_send: the (display_text, copy_content) pairs in sending order.
MessagesToSend(msg) ==
    <<DateResult(msg), InvoiceResult(msg.text), CostResult(msg.text)>>

\* initial_display = f"**{display_text}:**\n`{copy_content}`"
InitialDisplay(display_text, copy_content) ==
    <<"*", "*">> \o display_text \o <<":", "*", "*", "\n", Backtick>>
    \o copy_content \o <<Backtick>>

\* callback_data = f"copy_value|{copy_content}"
CallbackData(copy_content) == COPY_VALUE \o <<"|">> \o copy_content

\* ReplyMarkup with the button attached to every reply.
ReplyMarkup_Always(display_text, copy_content) ==
    Some(<<<<[text |-> BUTTON_LABEL,
              callback_data |-> CallbackData(copy_content)]>>>>)

\* reply_markup: a keyboard of one row with one button when the value was found or the
\* label carries a date tag, None otherwise.
ReplyMarkup(display_text, copy_content) ==
    LET is_pattern_found == (copy_content # SENTINEL)
    IN  IF \/ is_pattern_found
           \/ Contains(display_text, FALLBACK_TAG)
           \/ Contains(display_text, METADATA_TAG)
        THEN Some(<<<<[text |-> BUTTON_LABEL,
                       callback_data |-> CallbackData(copy_content)]>>>>)
        ELSE None

\* ------------------------------------------------------------ button_handler
\* NewText that keeps the whole original text and puts the confirmation line
\* behind it.
NewText_KeepsBody(original_text, copy_content) ==
    original_text \o <<"\n", "\n">> \o CONFIRM_LINE

\* NewText without the recovered header.
NewText_NoHeader(original_text, copy_content) ==
    <<"\n", Backtick>> \o copy_content \o <<Backtick, "\n", "\n">>
    \o CONFIRM_LINE

\* new_text = f"{header}\n`{copy_content}`\n\n<check> **Extracted Value**"
NewText(original_text, copy_content) ==
    HeaderOf(original_text) \o <<"\n", Backtick>> \o copy_content
    \o <<Backtick, "\n", "\n">> \o CONFIRM_LINE

\* f"<check> **Extracted Value**\n`{copy_content}`"
FallbackText(copy_content) ==
    CONFIRM_LINE \o <<"\n", Backtick>> \o copy_content \o <<Backtick>>

\* -------------------------------------------------------------------- inputs

\* The number of notifications the dispatcher delivers in one run.
MaxNotifications == 1

\* The number of notifications in one run of the specification in which a
\* notification follows a history of notifications and taps.
MaxHistory == 2

\* The number of button taps in such a run.
MaxHistoryTaps == 1

\* The number of button taps in one run.
MaxTaps == 2

\* The number of callback queries waiting for the dispatcher.
MaxPending == 2

\* message.date of the inbound notifications: 2024-01-01 00:00:00.
RECEIVED_AT ==
    [year |-> 2024, month |-> 1, day |-> 1, hour |-> 0, minute |-> 0,
     second |-> 0]

\* message.forward_date when the notification was forwarded:
\* 2023-12-31 23:59:07.
ORIGIN_AT ==
    [year |-> 2023, month |-> 12, day |-> 31, hour |-> 23, minute |-> 59,
     second |-> 7]

\* "Order P-XY9 cost 1,000 <riel> date n/a"
TEXT_ORDER ==
    <<"O", "r", "d", "e", "r", " ", "P", "-", "X", "Y", "9", " ", "c", "o",
      "s", "t", " ", "1", ",", "0", "0", "0", " ", Riel, " ", "d", "a", "t",
      "e", " ", "n", "/", "a">>

\* A text with neither an invoice number nor a price.
TEXT_HELLO == <<"h", "e", "l", "l", "o">>

\* The user id of the notification bot, and of somebody else.
SOURCE_BOT_ID == 42
STRANGER_ID == 7

\* The messages of the notification bot: a text with both fields that was
\* not forwarded, a forwarded text without the fields, and a message
\* without text (the empty text).
Notifications ==
    {[text |-> TEXT_ORDER, date |-> RECEIVED_AT, forward_date |-> None,
      from_user |-> SOURCE_BOT_ID],
     [text |-> TEXT_HELLO, date |-> RECEIVED_AT,
      forward_date |-> Some(ORIGIN_AT), from_user |-> SOURCE_BOT_ID],
     [text |-> <<>>, date |-> RECEIVED_AT, forward_date |-> None,
      from_user |-> SOURCE_BOT_ID]}

\* The greatest length of what precedes the core of an extraction text.
MaxPrefix == 2

\* The greatest length of what follows the core of an extraction text.
MaxSuffix == 1

\* The greatest length of a value put into a button payload.
MaxValueLen == 3

\* The sequences over A of length at most n.
SeqsUpTo(A, n) == UNION {[1..k -> A] : k \in 0..n}

\* The characters around the core of an extraction text: those the two
\* patterns distinguish.
AffixChars == {"1", ",", ".", " ", Riel, "P", "-"}

\* The characters behind the core: one that lengthens a run of digits or of
\* invoice characters, one that ends it, and the riel sign.
SuffixChars == {"1", " ", Riel}

\* "75,800 <riel>"
TEXT_PRICE == <<"7", "5", ",", "8", "0", "0", " ", Riel>>

\* "1,234.50 <riel>"
TEXT_DECIMAL == <<"1", ",", "2", "3", "4", ".", "5", "0", " ", Riel>>

\* "P-ABC123"
TEXT_INVOICE == <<"P", "-", "A", "B", "C", "1", "2", "3">>

\* "p-abc x"
TEXT_LOWER == <<"p", "-", "a", "b", "c", " ", "x">>

\* "P-A<backtick>B 1<backtick>0 <riel>"
TEXT_TICKS ==
    <<"P", "-", "A", Backtick, "B", " ", "1", Backtick, "0", " ", Riel>>

\* The texts the extraction is checked on: a core with every short prefix
\* and suffix, and the empty text.
ExtractionTexts ==
    {pre \o core \o suf :
        pre \in SeqsUpTo(AffixChars, MaxPrefix),
        core \in {TEXT_PRICE, TEXT_DECIMAL, TEXT_INVOICE, TEXT_LOWER,
                  TEXT_TICKS},
        suf \in SeqsUpTo(SuffixChars, MaxSuffix)}
    \cup {<<>>}

\* The update.message objects the extraction is checked on.
ExtractionNotifications ==
    [text : ExtractionTexts, date : {RECEIVED_AT}, forward_date : {None},
     from_user : {SOURCE_BOT_ID}]

\* The values the payload encoding is checked on, with and without pipes.
PayloadValues == SeqsUpTo({"7", "A", "|"}, MaxValueLen)

\* A one-button keyboard with the given callback data.
OneButton(label, data) == Some(<<<<[text |-> label, callback_data |-> data]>>>>)

\* Messages with buttons that the bot account sent before this run (by an
\* earlier deployment), whose taps the CallbackQueryHandler also receives: a
\* payload without a pipe, a payload with another action tag, and a
\* copy_value payload whose value contains a pipe on a text without header.
PRIOR_CHAT ==
    <<[via |-> "prior", text |-> <<"m", "e", "n", "u">>,
       reply_markup |-> OneButton(<<"A">>, <<"n", "o", "o", "p">>),
       reply_to |-> 0],
      [via |-> "prior", text |-> <<"*", "*", "l", "a", "n", "g", "*", "*">>,
       reply_markup |-> OneButton(<<"B">>, <<"l", "a", "n", "g", "|", "k", "m">>),
       reply_to |-> 0],
      [via |-> "prior", text |-> <<"p", "l", "a", "i", "n">>,
       reply_markup |-> OneButton(<<"C">>, COPY_VALUE \o <<"|", "7", "|", "8">>),
       reply_to |-> 0]>>

\* ---------------------------------------------------- configuration, filters

\* The letters, in alphabetical order, for str.lower().
UPPER ==
    <<"A", "B", "C", "D", "E", "F", "G", "H", "I", "J", "K", "L", "M", "N",
      "O", "P", "Q", "R", "S", "T", "U", "V", "W", "X", "Y", "Z">>

LOWER ==
    <<"a", "b", "c", "d", "e", "f", "g", "h", "i", "j", "k", "l", "m", "n",
      "o", "p", "q", "r", "s", "t", "u", "v", "w", "x", "y", "z">>

\* str.lower() on the characters of the model.
Lower(s) ==
    [k \in 1..Len(s) |->
        IF s[k] \in UpperLetters
        THEN LOWER[CHOOSE j \in 1..26 : UPPER[j] = s[k]]
        ELSE s[k]]

\* The value of a decimal digit.
DigitValue(c) == (CHOOSE j \in 1..10 : DigitChars[j] = c) - 1

\* The number written by a sequence of digits and underscores.
RECURSIVE DecimalValue(_)
DecimalValue(s) ==
    IF s = <<>> THEN 0
    ELSE IF s[Len(s)] = "_" THEN DecimalValue(SubSeq(s, 1, Len(s) - 1))
    ELSE 10 * DecimalValue(SubSeq(s, 1, Len(s) - 1)) + DigitValue(s[Len(s)])

\* str.strip(): the text without its leading and trailing whitespace.
Strip(s) ==
    LET lead  == Run(s, 1, Whitespace)
        inner == {k \in 1..Len(s) : s[k] \notin Whitespace}
    IN  IF inner = {} THEN <<>> ELSE SubSeq(s, lead + 1, Max(inner))

\* int(v) of the configuration block: v is None when the variable is unset
\* (TypeError) and a string otherwise; a string is an integer when, stripped,
\* it is an optional sign and digits with single underscores between them
\* (ValueError otherwise). TypeError and ValueError both give None.
ParseInt(v) ==
    IF v = None THEN None
    ELSE LET s    == Strip(v[1])
             sign == IF s # <<>> /\ s[1] \in {"+", "-"} THEN 1 ELSE 0
             body == Tail1(s, sign + 1)
             wellFormed ==
                 /\ body # <<>>
                 /\ body[1] \in Digits
                 /\ body[Len(body)] \in Digits
                 /\ \A k \in 1..Len(body) : body[k] \in Digits \cup {"_"}
                 /\ \A k \in 1..(Len(body) - 1) :
                        ~(body[k] = "_" /\ body[k + 1] = "_")
         IN  IF ~wellFormed THEN None
             ELSE IF sign = 1 /\ s[1] = "-" THEN Some(0 - DecimalValue(body))
             ELSE Some(DecimalValue(body))

\* The values of the two environment variables: unset, set to a string that
\* is empty or no integer, and set properly.
Environments ==
    [TELEGRAM_BOT_TOKEN :
        {None, Some(<<>>), Some(<<"t", "o", "k">>)},
     PPWSA_NOTIFICATION_BOT_ID :
        {None, Some(<<"4", "x">>), Some(<<"4", "2">>)}]

\* The welcome text of start_command.
WELCOME ==
    <<"W", "e", "l", "c", "o", "m", "e", "!", " ", "I", " ", "a", "m", " ",
      "r", "u", "n", "n", "i", "n", "g", " ", "a", "s", " ", "a", " ", "s",
      "e", "r", "v", "i", "c", "e", ".", " ", "I", " ", "w", "i", "l", "l",
      " ", "a", "u", "t", "o", "m", "a", "t", "i", "c", "a", "l", "l", "y",
      " ", "l", "i", "s", "t", "e", "n", " ", "f", "o", "r", " ", "n", "o",
      "t", "i", "f", "i", "c", "a", "t", "i", "o", "n", "s", " ", "f", "r",
      "o", "m", " ", "t", "h", "e", " ", "s", "p", "e", "c", "i", "f", "i",
      "e", "d", " ", "s", "o", "u", "r", "c", "e", " ", "b", "o", "t", " ",
      "a", "n", "d", " ", "e", "x", "t", "r", "a", "c", "t", " ", "d", "a",
      "t", "a", ".">>

\* "/start"
TEXT_START == <<"/", "s", "t", "a", "r", "t">>

\* "/help P-XY9"
TEXT_HELP == <<"/", "h", "e", "l", "p", " ", "P", "-", "X", "Y", "9">>

\* The characters of a bot command's name.
CommandChars ==
    UpperLetters \cup {LOWER[j] : j \in 1..26} \cup Digits \cup {"_"}

\* filters.COMMAND: the text starts with a bot command, a slash followed by
\* a name.
FilterCOMMAND(msg) ==
    /\ Len(msg.text) >= 2
    /\ msg.text[1] = "/"
    /\ Run(msg.text, 2, CommandChars) >= 1

\* filters.TEXT: the message has a text.
FilterTEXT(msg) == msg.text # <<>>

\* filters.User(user_id=...): the message's sender is the given user.
FilterUser(user_id, msg) == Some(msg.from_user) = user_id

\* CommandHandler("start", ...): the text starts with the command /start,
\* in any case.
IsStartCommand(msg) ==
    /\ FilterCOMMAND(msg)
    /\ Lower(SubSeq(msg.text, 2, 1 + Run(msg.text, 2, CommandChars)))
         = Tail(TEXT_START)

\* The handlers main registers, in the order of registration.
HANDLERS ==
    <<"start_command", "handle_notification_message", "button_handler">>

\* The updates of the chat besides the notifications: the notification's
\* text from another sender, /start from another sender, and a command from
\* the notification bot.
OtherMessages ==
    {[text |-> TEXT_ORDER, date |-> RECEIVED_AT, forward_date |-> None,
      from_user |-> STRANGER_ID],
     [text |-> TEXT_START, date |-> RECEIVED_AT, forward_date |-> None,
      from_user |-> STRANGER_ID],
     [text |-> TEXT_HELP, date |-> RECEIVED_AT, forward_date |-> None,
      from_user |-> SOURCE_BOT_ID]}

\* The message updates the dispatcher receives.
Updates == Notifications \cup OtherMessages

\* --------------------------------------------------------------------- state

VARIABLES
    environ,           \* the environment variables of the process
    main,              \* the position of main()
    handlers,          \* the handlers registered with the application
    log,               \* the errors main() has logged
    chat,              \* the messages of the chat; message_id is the index
    pending,           \* callback queries not yet dispatched
    pc,                \* the position of the running handler
    message,           \* update.message of handle_notification_message
    messages_to_send,  \* handle_notification_message's list
    i,                 \* the index of its for loop
    query,             \* update.callback_query of button_handler
    action,            \* button_handler's local
    copy_content,      \* button_handler's local
    new_text,          \* button_handler's local
    inflight,          \* API requests sent and not yet answered
    calls,             \* API calls the running handler has completed, in order
    raised,            \* the exception that ended the last handler, or None
    received,          \* number of notifications delivered
    taps               \* number of taps made

vars ==
    <<environ, main, handlers, log, chat, pending, pc, message, messages_to_send, i, query, action,
      copy_content, new_text, inflight, calls, raised, received, taps>>

\* The configuration and what main() made of it.
main_state == <<environ, main, handlers, log>>

\* The locals of button_handler.
bh_locals == <<query, action, copy_content, new_text>>

\* The locals of handle_notification_message.
hn_locals == <<message, messages_to_send, i>>

\* The application polls and no handler is running: the dispatcher awaits
\* each handler before it takes the next update.
Idle ==
    /\ main = "run_polling"
    /\ pc \in {"idle", "hn_done", "bh_done", "sc_done"}

Init ==
    /\ environ \in Environments
    /\ main = "entry"
    /\ handlers = <<>>
    /\ log = <<>>
    /\ chat = PRIOR_CHAT
    /\ pending = <<>>
    /\ pc = "idle"
    /\ message = None
    /\ messages_to_send = <<>>
    /\ i = 0
    /\ query = None
    /\ action = None
    /\ copy_content = None
    /\ new_text = None
    /\ inflight = {}
    /\ calls = <<>>
    /\ raised = None
    /\ received = 0
    /\ taps = 0

\* ---------------------------------------------------------- main, dispatcher

\* The module-level TELEGRAM_BOT_TOKEN.
TELEGRAM_BOT_TOKEN == environ.TELEGRAM_BOT_TOKEN

\* The module-level PPWSA_NOTIFICATION_BOT_ID.
PPWSA_NOTIFICATION_BOT_ID == ParseInt(environ.PPWSA_NOTIFICATION_BOT_ID)
\* Main without the check of PPWSA_NOTIFICATION_BOT_ID: only the token is
\* looked at before the handlers are registered.
Main_NoIdCheck ==
    /\ main = "entry"
    /\ IF TELEGRAM_BOT_TOKEN \in {None, Some(<<>>)}
       THEN /\ log' = Append(log,
                    "Configuration Error: TELEGRAM_BOT_TOKEN")
            /\ main' = "returned"
            /\ handlers' = handlers
       ELSE /\ log' = log
            /\ handlers' = HANDLERS
            /\ main' = "run_polling"
    /\ UNCHANGED <<environ, chat, pending, pc, hn_locals, bh_locals,
                   inflight, calls, raised, received, taps>>

\* main(): it returns with an error logged when the token is missing or
\* empty or the sender id is None, and otherwise registers the three
\* handlers and enters run_polling.
Main ==
    /\ main = "entry"
    /\ IF TELEGRAM_BOT_TOKEN \in {None, Some(<<>>)}
       THEN /\ log' = Append(log,
                    "Configuration Error: TELEGRAM_BOT_TOKEN")
            /\ main' = "returned"
            /\ handlers' = handlers
       ELSE IF PPWSA_NOTIFICATION_BOT_ID = None
       THEN /\ log' = Append(log,
                    "Configuration Error: PPWSA_NOTIFICATION_BOT_ID")
            /\ main' = "returned"
            /\ handlers' = handlers
       ELSE /\ log' = log
            /\ handlers' = HANDLERS
            /\ main' = "run_polling"
    /\ UNCHANGED <<environ, chat, pending, pc, hn_locals, bh_locals,
                   inflight, calls, raised, received, taps>>
\* CheckUpdate with the notification handler's filter built without the
\* sender: filters.TEXT & ~filters.COMMAND.
CheckUpdate_AnySender(handler, msg) ==
    CASE handler = "start_command" -> IsStartCommand(msg)
      [] handler = "handle_notification_message" ->
            /\ FilterTEXT(msg)
            /\ ~FilterCOMMAND(msg)
      [] OTHER -> FALSE

\* Handler.check_update for a message update.
CheckUpdate(handler, msg) ==
    CASE handler = "start_command" -> IsStartCommand(msg)
      [] handler = "handle_notification_message" ->
            /\ FilterTEXT(msg)
            /\ ~FilterCOMMAND(msg)
            /\ FilterUser(PPWSA_NOTIFICATION_BOT_ID, msg)
      [] OTHER -> FALSE

\* The handler the dispatcher calls for a message update: the first
\* registered handler that accepts it, or None.
HandlerFor(msg) ==
    LET accepting == {k \in DOMAIN handlers : CheckUpdate(handlers[k], msg)}
    IN  IF accepting = {} THEN None ELSE Some(handlers[Min(accepting)])

\* A message arrives in the chat and no handler accepts it.
NoHandler(u) ==
    /\ Idle
    /\ HandlerFor(u) = None
    /\ received' = received + 1
    /\ chat' = Append(chat, [via |-> "inbound", text |-> u.text,
                             reply_markup |-> None, reply_to |-> 0,
                             from_user |-> u.from_user])
    /\ pc' = "idle"
    /\ UNCHANGED <<main_state, pending, hn_locals, bh_locals, inflight,
                   calls, raised, taps>>

\* -------------------------------------------------------------- start_command

\* A /start message arrives in the chat and the dispatcher calls
\* start_command, which runs up to its await: the welcome text leaves as a
\* reply.
SC_Begin(u) ==
    /\ Idle
    /\ HandlerFor(u) = Some("start_command")
    /\ received' = received + 1
    /\ chat' = Append(chat, [via |-> "inbound", text |-> u.text,
                             reply_markup |-> None, reply_to |-> 0,
                             from_user |-> u.from_user])
    /\ inflight' = inflight \cup
                   {[op |-> "reply_text", text |-> WELCOME,
                     reply_markup |-> None, reply_to |-> Len(chat) + 1]}
    /\ calls' = <<>>
    /\ raised' = None
    /\ pc' = "sc_await"
    /\ UNCHANGED <<main_state, pending, hn_locals, bh_locals, taps>>

\* The awaited send succeeds: the welcome text is in the chat.
SC_ReplyOk ==
    /\ pc = "sc_await"
    /\ \E r \in inflight :
          /\ inflight' = inflight \ {r}
          /\ chat' = Append(chat, [via |-> "welcome", text |-> r.text,
                                   reply_markup |-> r.reply_markup,
                                   reply_to |-> r.reply_to])
          /\ calls' = Append(calls, [op |-> r.op, ok |-> TRUE])
    /\ pc' = "sc_done"
    /\ UNCHANGED <<main_state, pending, hn_locals, bh_locals, raised,
                   received, taps>>

\* The awaited send raises: nothing catches it, the handler ends.
SC_ReplyFail ==
    /\ pc = "sc_await"
    /\ \E r \in inflight :
          /\ inflight' = inflight \ {r}
          /\ calls' = Append(calls, [op |-> r.op, ok |-> FALSE])
    /\ raised' = Some("TelegramError")
    /\ pc' = "sc_done"
    /\ UNCHANGED <<main_state, chat, pending, hn_locals, bh_locals,
                   received, taps>>

\* ------------------------------------------------ handle_notification_message
\* ReplyRequest that leaves the button off when the chat already has a
\* message with the same text: what is sent depends on what was sent before.
ReplyRequest_Deduplicates(k) ==
    LET display_text == messages_to_send[k][1]
        copy_value   == messages_to_send[k][2]
        text         == InitialDisplay(display_text, copy_value)
    IN  [op |-> "reply_text",
         text |-> text,
         reply_markup |->
            IF \E m \in DOMAIN chat : chat[m].text = text
            THEN None
            ELSE ReplyMarkup(display_text, copy_value),
         reply_to |-> message[1].message_id]

\* The request of message.reply_text(initial_display, reply_markup=...,
\* parse_mode='Markdown') for the pair at index k.
ReplyRequest(k) ==
    LET display_text == messages_to_send[k][1]
        copy_value   == messages_to_send[k][2]
    IN  [op |-> "reply_text",
         text |-> InitialDisplay(display_text, copy_value),
         reply_markup |-> ReplyMarkup(display_text, copy_value),
         reply_to |-> message[1].message_id]

\* The for loop's next step from index k: await the send of pair k, or return
\* when the list is exhausted.
LoopFrom(k, msgs) ==
    IF k <= Len(msgs) THEN "hn_send" ELSE "hn_done"
\* HN_Begin without the return on an empty text: the extraction runs on
\* whatever the text is.
HN_Begin_NoTextCheck(n) ==
    /\ Idle
    /\ received' = received + 1
    /\ chat' = Append(chat, [via |-> "inbound", text |-> n.text,
                             reply_markup |-> None, reply_to |-> 0,
                             from_user |-> n.from_user])
    /\ message' = Some([message_id |-> Len(chat) + 1, text |-> n.text,
                        date |-> n.date, forward_date |-> n.forward_date])
    /\ calls' = <<>>
    /\ raised' = None
    /\ messages_to_send' = MessagesToSend(n)
    /\ i' = 1
    /\ pc' = "hn_send"
    /\ UNCHANGED <<main_state, pending, bh_locals, inflight, taps>>

\* The notification arrives in the chat and the dispatcher calls
\* handle_notification_message, which runs up to its first await: it returns
\* at once on an empty text, and builds messages_to_send otherwise.
HN_Begin(n) ==
    /\ Idle
    /\ received' = received + 1
    /\ chat' = Append(chat, [via |-> "inbound", text |-> n.text,
                             reply_markup |-> None, reply_to |-> 0,
                             from_user |-> n.from_user])
    /\ message' = Some([message_id |-> Len(chat) + 1, text |-> n.text,
                        date |-> n.date, forward_date |-> n.forward_date])
    /\ calls' = <<>>
    /\ raised' = None
    /\ IF n.text = <<>>
       THEN /\ messages_to_send' = <<>>
            /\ i' = 0
            /\ pc' = "hn_done"
       ELSE /\ messages_to_send' = MessagesToSend(n)
            /\ i' = 1
            /\ pc' = "hn_send"
    /\ UNCHANGED <<main_state, pending, bh_locals, inflight, taps>>

\* HN_Send without the await inside the loop: the requests for all the
\* remaining pairs leave together.
HN_Send_NoAwait ==
    /\ pc = "hn_send"
    /\ inflight' = inflight \cup
                   {ReplyRequest(k) : k \in i..Len(messages_to_send)}
    /\ pc' = "hn_await"
    /\ UNCHANGED <<main_state, chat, pending, hn_locals, bh_locals, calls, raised,
                   received, taps>>

\* The loop body up to the await: the request for pair i leaves.
HN_Send ==
    /\ pc = "hn_send"
    /\ inflight' = inflight \cup {ReplyRequest(i)}
    /\ pc' = "hn_await"
    /\ UNCHANGED <<main_state, chat, pending, hn_locals, bh_locals, calls, raised,
                   received, taps>>

\* The awaited send succeeds: the reply is in the chat and the loop goes on.
HN_SendOk ==
    /\ pc = "hn_await"
    /\ \E r \in inflight :
          /\ inflight' = inflight \ {r}
          /\ chat' = Append(chat, [via |-> "reply", text |-> r.text,
                                   reply_markup |-> r.reply_markup,
                                   reply_to |-> r.reply_to])
          /\ calls' = Append(calls, [op |-> r.op, ok |-> TRUE])
    /\ i' = i + 1
    /\ pc' = LoopFrom(i + 1, messages_to_send)
    /\ UNCHANGED <<main_state, pending, message, messages_to_send, bh_locals, raised,
                   received, taps>>
\* HN_SendFail with the send wrapped in try/except inside the loop: the
\* error is swallowed and the loop goes on with the next pair.
HN_SendFail_Continues ==
    /\ pc = "hn_await"
    /\ \E r \in inflight :
          /\ inflight' = inflight \ {r}
          /\ calls' = Append(calls, [op |-> r.op, ok |-> FALSE])
    /\ i' = i + 1
    /\ pc' = LoopFrom(i + 1, messages_to_send)
    /\ UNCHANGED <<main_state, chat, pending, message, messages_to_send,
                   bh_locals, raised, received, taps>>

\* HN_SendFail with the send wrapped in a retry: the loop stays at the pair
\* whose send failed.
HN_SendFail_Retries ==
    /\ pc = "hn_await"
    /\ \E r \in inflight :
          /\ inflight' = inflight \ {r}
          /\ calls' = Append(calls, [op |-> r.op, ok |-> FALSE])
    /\ pc' = "hn_send"
    /\ UNCHANGED <<main_state, chat, pending, hn_locals, bh_locals, raised,
                   received, taps>>

\* The awaited send raises: nothing catches it, the handler ends.
HN_SendFail ==
    /\ pc = "hn_await"
    /\ \E r \in inflight :
          /\ inflight' = inflight \ {r}
          /\ calls' = Append(calls, [op |-> r.op, ok |-> FALSE])
    /\ raised' = Some("TelegramError")
    /\ pc' = "hn_done"
    /\ UNCHANGED <<main_state, chat, pending, hn_locals, bh_locals, received, taps>>

\* ------------------------------------------------------------ button_handler

\* A user taps the button of message m: Telegram queues a callback query with
\* the button's payload and the message as it is at the tap.
Tap(m) ==
    /\ taps < MaxTaps
    /\ Len(pending) < MaxPending
    /\ chat[m].reply_markup # None
    /\ taps' = taps + 1
    /\ pending' = Append(pending,
          [data |-> chat[m].reply_markup[1][1][1].callback_data,
           message |-> [message_id |-> m, text |-> chat[m].text]])
    /\ UNCHANGED <<main_state, chat, pc, hn_locals, bh_locals, inflight, calls, raised,
                   received>>

\* BH_Begin with the payload's tag read before query.answer is awaited.
BH_Begin_DecodesFirst ==
    /\ Idle
    /\ pending # <<>>
    /\ query' = Some(Head(pending))
    /\ pending' = Tail(pending)
    /\ action' = Some(SplitFirstPipe(Head(pending).data)[1])
    /\ copy_content' = None
    /\ new_text' = None
    /\ calls' = <<>>
    /\ raised' = None
    /\ inflight' = inflight \cup {[op |-> "answer"]}
    /\ pc' = "bh_answer"
    /\ UNCHANGED <<main_state, chat, hn_locals, received, taps>>

\* The dispatcher calls button_handler with the next callback query; the
\* handler runs up to its first await, query.answer(...).
BH_Begin ==
    /\ Idle
    /\ pending # <<>>
    /\ query' = Some(Head(pending))
    /\ pending' = Tail(pending)
    /\ action' = None
    /\ copy_content' = None
    /\ new_text' = None
    /\ calls' = <<>>
    /\ raised' = None
    /\ inflight' = inflight \cup {[op |-> "answer"]}
    /\ pc' = "bh_answer"
    /\ UNCHANGED <<main_state, chat, hn_locals, received, taps>>

\* query.answer raises (the query is too old, the transport fails): nothing
\* catches it, the handler ends.
BH_AnswerFail ==
    /\ pc = "bh_answer"
    /\ inflight' = inflight \ {[op |-> "answer"]}
    /\ calls' = Append(calls, [op |-> "answer", ok |-> FALSE])
    /\ raised' = Some("TelegramError")
    /\ pc' = "bh_done"
    /\ UNCHANGED <<main_state, chat, pending, hn_locals, bh_locals, received, taps>>

\* The request of query.edit_message_text(new_text, parse_mode='Markdown',
\* reply_markup=None).
EditRequest(q, text) ==
    [op |-> "edit_message_text", message_id |-> q.message.message_id,
     text |-> text, reply_markup |-> None]

\* The request of query.message.reply_text(f"...", parse_mode='Markdown').
FallbackRequest(q, content) ==
    [op |-> "reply_text", text |-> FallbackText(content),
     reply_markup |-> None, reply_to |-> q.message.message_id]

\* query.answer returns and the handler runs up to its next await: it splits
\* the payload (data[1] raises IndexError when there is no pipe), returns on
\* another action tag, and on "copy_value" composes new_text and sends the
\* edit.
BH_Decode ==
    /\ pc = "bh_answer"
    /\ LET data == SplitFirstPipe(query[1].data)
       IN  /\ action' = Some(data[1])
           /\ IF Len(data) < 2
              THEN /\ raised' = Some("IndexError")
                   /\ copy_content' = None
                   /\ new_text' = None
                   /\ inflight' = inflight \ {[op |-> "answer"]}
                   /\ pc' = "bh_done"
              ELSE /\ raised' = None
                   /\ copy_content' = Some(data[2])
                   /\ IF data[1] = COPY_VALUE
                      THEN /\ new_text' =
                                Some(NewText(query[1].message.text, data[2]))
                           /\ inflight' =
                                (inflight \ {[op |-> "answer"]}) \cup
                                {EditRequest(query[1],
                                    NewText(query[1].message.text, data[2]))}
                           /\ pc' = "bh_edit"
                      ELSE /\ new_text' = None
                           /\ inflight' = inflight \ {[op |-> "answer"]}
                           /\ pc' = "bh_done"
    /\ calls' = Append(calls, [op |-> "answer", ok |-> TRUE])
    /\ UNCHANGED <<main_state, chat, pending, hn_locals, query, received, taps>>

\* BH_EditOk with the keyboard left on the edited message.
BH_EditOk_KeepsButton ==
    /\ pc = "bh_edit"
    /\ \E r \in {x \in inflight : x.op = "edit_message_text"} :
          /\ inflight' = inflight \ {r}
          /\ chat' = [chat EXCEPT ![r.message_id] = [@ EXCEPT !.text = r.text]]
          /\ calls' = Append(calls, [op |-> r.op, ok |-> TRUE])
    /\ pc' = "bh_done"
    /\ UNCHANGED <<main_state, pending, hn_locals, bh_locals, raised, received, taps>>

\* The awaited edit succeeds: the message has the new text and no keyboard.
BH_EditOk ==
    /\ pc = "bh_edit"
    /\ \E r \in {x \in inflight : x.op = "edit_message_text"} :
          /\ inflight' = inflight \ {r}
          /\ chat' = [chat EXCEPT ![r.message_id] =
                        [@ EXCEPT !.text = r.text,
                                  !.reply_markup = r.reply_markup]]
          /\ calls' = Append(calls, [op |-> r.op, ok |-> TRUE])
    /\ pc' = "bh_done"
    /\ UNCHANGED <<main_state, pending, hn_locals, bh_locals, raised, received, taps>>

\* BH_EditFail without the except clause's send: the warning is logged and
\* the handler returns.
BH_EditFail_NoFallback ==
    /\ pc = "bh_edit"
    /\ \E r \in {x \in inflight : x.op = "edit_message_text"} :
          /\ inflight' = inflight \ {r}
          /\ calls' = Append(calls, [op |-> r.op, ok |-> FALSE])
    /\ pc' = "bh_done"
    /\ UNCHANGED <<main_state, chat, pending, hn_locals, bh_locals, raised, received,
                   taps>>

\* The awaited edit raises: the except clause logs a warning and sends the
\* confirmation as a new message.
BH_EditFail ==
    /\ pc = "bh_edit"
    /\ \E r \in {x \in inflight : x.op = "edit_message_text"} :
          /\ inflight' = (inflight \ {r}) \cup
                         {FallbackRequest(query[1], copy_content[1])}
          /\ calls' = Append(calls, [op |-> r.op, ok |-> FALSE])
    /\ pc' = "bh_reply"
    /\ UNCHANGED <<main_state, chat, pending, hn_locals, bh_locals, raised, received,
                   taps>>
\* BH_ReplyOk that also takes the keyboard off the tapped message once the
\* confirmation is delivered.
BH_ReplyOk_RemovesButton ==
    /\ pc = "bh_reply"
    /\ \E r \in {x \in inflight : x.op = "reply_text"} :
          /\ inflight' = inflight \ {r}
          /\ chat' = Append([chat EXCEPT ![r.reply_to].reply_markup = None],
                            [via |-> "fallback", text |-> r.text,
                             reply_markup |-> r.reply_markup,
                             reply_to |-> r.reply_to])
          /\ calls' = Append(calls, [op |-> r.op, ok |-> TRUE])
    /\ pc' = "bh_done"
    /\ UNCHANGED <<main_state, pending, hn_locals, bh_locals, raised,
                   received, taps>>

\* The awaited fallback send succeeds: the confirmation is a new message.
BH_ReplyOk ==
    /\ pc = "bh_reply"
    /\ \E r \in {x \in inflight : x.op = "reply_text"} :
          /\ inflight' = inflight \ {r}
          /\ chat' = Append(chat, [via |-> "fallback", text |-> r.text,
                                   reply_markup |-> r.reply_markup,
                                   reply_to |-> r.reply_to])
          /\ calls' = Append(calls, [op |-> r.op, ok |-> TRUE])
    /\ pc' = "bh_done"
    /\ UNCHANGED <<main_state, pending, hn_locals, bh_locals, raised, received, taps>>

\* The awaited fallback send raises inside the except clause: nothing catches
\* it, the handler ends.
BH_ReplyFail ==
    /\ pc = "bh_reply"
    /\ \E r \in {x \in inflight : x.op = "reply_text"} :
          /\ inflight' = inflight \ {r}
          /\ calls' = Append(calls, [op |-> r.op, ok |-> FALSE])
    /\ raised' = Some("TelegramError")
    /\ pc' = "bh_done"
    /\ UNCHANGED <<main_state, chat, pending, hn_locals, bh_locals, received, taps>>

\* ------------------------------------------------------------- specification

Next ==
    \/ Main
    \/ received < MaxNotifications /\ \E u \in Updates :
          HandlerFor(u) = Some("handle_notification_message") /\ HN_Begin(u)
    \/ received < MaxNotifications /\ \E u \in Updates : SC_Begin(u)
    \/ received < MaxNotifications /\ \E u \in Updates : NoHandler(u)
    \/ SC_ReplyOk
    \/ SC_ReplyFail
    \/ HN_Send
    \/ HN_SendOk
    \/ HN_SendFail
    \/ \E m \in 1..Len(chat) : Tap(m)
    \/ BH_Begin
    \/ BH_AnswerFail
    \/ BH_Decode
    \/ BH_EditOk
    \/ BH_EditFail
    \/ BH_ReplyOk
    \/ BH_ReplyFail

Spec == Init /\ [][Next]_vars

\* The extraction applied once to each text of ExtractionTexts: the
\* notification handler alone, one notification per run.
NextExtract ==
    \/ Main
    \/ received = 0 /\ \E n \in ExtractionNotifications : HN_Begin(n)
    \/ HN_Send
    \/ HN_SendOk
    \/ HN_SendFail

SpecExtract == Init /\ [][NextExtract]_vars

\* The payload encoding applied to each value of PayloadValues: the
\* notification handler is about to send a reply whose copy_content is the
\* value, and the reply's button is then tapped.
InitPayload ==
    /\ environ = [TELEGRAM_BOT_TOKEN |-> Some(<<"t", "o", "k">>),
                  PPWSA_NOTIFICATION_BOT_ID |-> Some(<<"4", "2">>)]
    /\ main = "run_polling"
    /\ handlers = HANDLERS
    /\ log = <<>>
    /\ chat = <<[via |-> "inbound", text |-> TEXT_HELLO,
                 reply_markup |-> None, reply_to |-> 0,
                 from_user |-> SOURCE_BOT_ID]>>
    /\ pending = <<>>
    /\ pc = "hn_send"
    /\ message = Some([message_id |-> 1, text |-> TEXT_HELLO,
                       date |-> RECEIVED_AT, forward_date |-> None])
    /\ messages_to_send \in {<<<<INVOICE_LABEL, v>>>> : v \in PayloadValues}
    /\ i = 1
    /\ query = None
    /\ action = None
    /\ copy_content = None
    /\ new_text = None
    /\ inflight = {}
    /\ calls = <<>>
    /\ raised = None
    /\ received = 1
    /\ taps = 0

NextPayload ==
    \/ HN_Send
    \/ HN_SendOk
    \/ HN_SendFail
    \/ \E m \in 1..Len(chat) : Tap(m)
    \/ BH_Begin
    \/ BH_AnswerFail
    \/ BH_Decode
    \/ BH_EditOk
    \/ BH_EditFail
    \/ BH_ReplyOk
    \/ BH_ReplyFail

SpecPayload == InitPayload /\ [][NextPayload]_vars

\* Notifications after a history: several notifications in one run, with
\* taps on their replies in between.
NextHistory ==
    \/ received < MaxHistory /\ \E u \in Notifications :
          HandlerFor(u) = Some("handle_notification_message") /\ HN_Begin(u)
    \/ HN_Send
    \/ HN_SendOk
    \/ HN_SendFail
    \/ taps < MaxHistoryTaps /\ \E m \in 1..Len(chat) : Tap(m)
    \/ BH_Begin
    \/ BH_AnswerFail
    \/ BH_Decode
    \/ BH_EditOk
    \/ BH_EditFail
    \/ BH_ReplyOk
    \/ BH_ReplyFail

\* The application polls with a proper configuration in a chat that has no
\* messages yet.
InitHistory ==
    /\ environ = [TELEGRAM_BOT_TOKEN |-> Some(<<"t", "o", "k">>),
                  PPWSA_NOTIFICATION_BOT_ID |-> Some(<<"4", "2">>)]
    /\ main = "run_polling"
    /\ handlers = HANDLERS
    /\ log = <<>>
    /\ chat = <<>>
    /\ pending = <<>>
    /\ pc = "idle"
    /\ message = None
    /\ messages_to_send = <<>>
    /\ i = 0
    /\ query = None
    /\ action = None
    /\ copy_content = None
    /\ new_text = None
    /\ inflight = {}
    /\ calls = <<>>
    /\ raised = None
    /\ received = 0
    /\ taps = 0

SpecHistory == InitHistory /\ [][NextHistory]_vars

\* ---------------------------------------------------------------- properties

\* The message_id of the message whose button was tapped.
TappedId == query[1].message.message_id

\* The running (or last) handler has completed the call op with outcome ok.
Did(op, ok) == \E k \in DOMAIN calls : calls[k] = [op |-> op, ok |-> ok]

\* button_handler is running or was the last handler to run.
InButtonHandler == pc \in {"bh_answer", "bh_edit", "bh_reply", "bh_done"}

\* handle_notification_message is running or was the last handler to run.
InNotificationHandler == pc \in {"hn_send", "hn_await", "hn_done"}

\* The replies sent to the inbound message id, in the order of the chat.
RepliesTo(id) ==
    SelectSeq(chat, LAMBDA x : x.via = "reply" /\ x.reply_to = id)

\* s starts with pre.
StartsWith(s, pre) == Len(pre) <= Len(s) /\ SubSeq(s, 1, Len(pre)) = pre

\* s ends with suf.
EndsWith(s, suf) ==
    Len(suf) <= Len(s) /\ SubSeq(s, Len(s) - Len(suf) + 1, Len(s)) = suf

\* button_handler has returned from a tap whose payload it decoded to the
\* action tag "copy_value".
DecodedCopyValue ==
    pc = "bh_done" /\ copy_content # None /\ action = Some(COPY_VALUE)

\* The tapped message was rewritten to the confirmed text, without button.
ConfirmedByEdit ==
    /\ Did("edit_message_text", TRUE)
    /\ chat[TappedId].text = new_text[1]
    /\ chat[TappedId].reply_markup = None

\* The edit failed and the confirmation was sent as a new message.
ConfirmedByFallback ==
    /\ Did("edit_message_text", FALSE)
    /\ Did("reply_text", TRUE)
    /\ chat[Len(chat)] =
          [via |-> "fallback", text |-> FallbackText(copy_content[1]),
           reply_markup |-> None, reply_to |-> TappedId]

\* C1 as claimed: every handled tap with the tag "copy_value" ends with the
\* tapped message rewritten or, when the edit failed, with a new confirmation
\* message sent.
C1_AlwaysConfirmed ==
    DecodedCopyValue => ConfirmedByEdit \/ ConfirmedByFallback

\* C1 as amended: every handled tap with the tag "copy_value" ends with the
\* tapped message rewritten or, when the edit failed, with exactly one
\* fallback send attempted; the new confirmation message is in the chat
\* unless that send failed too, and then the handler ended with the
\* transport's error and the user has no confirmation.
C1_ConfirmedUnlessFallbackFails ==
    DecodedCopyValue =>
        \/ ConfirmedByEdit /\ raised = None
        \/ ConfirmedByFallback /\ raised = None
        \/ /\ calls = <<[op |-> "answer", ok |-> TRUE],
                        [op |-> "edit_message_text", ok |-> FALSE],
                        [op |-> "reply_text", ok |-> FALSE]>>
           /\ raised = Some("TelegramError")

\* C1 witness: the edit failed and the fallback message was delivered.
C1_FallbackDelivered == DecodedCopyValue /\ ConfirmedByFallback

\* C2 as claimed: a tap whose action tag is not "copy_value", a payload
\* without a pipe included, makes button_handler do nothing after the
\* acknowledgment: no edit, no send, no error, the tapped message unchanged.
C2_UnknownTagIgnored ==
    (/\ pc = "bh_done"
     /\ Did("answer", TRUE)
     /\ SplitFirstPipe(query[1].data)[1] # COPY_VALUE)
    => /\ raised = None
       /\ calls = <<[op |-> "answer", ok |-> TRUE]>>
       /\ inflight = {}
       /\ chat[TappedId].text = query[1].message.text

\* C3: in button_handler query.answer is the first call; nothing is decoded
\* and no edit or send leaves before it has returned, and it is called for
\* every tap, whatever the action tag.
C3_AckBeforeDecode ==
    InButtonHandler =>
        /\ pc = "bh_answer" =>
              /\ calls = <<>>
              /\ action = None /\ copy_content = None /\ new_text = None
              /\ inflight = {[op |-> "answer"]}
        /\ pc # "bh_answer" =>
              /\ calls # <<>>
              /\ calls[1].op = "answer"
              /\ \A k \in 2..Len(calls) : calls[k].op # "answer"
        /\ (action # None \/ Len(calls) > 1 \/ pc \in {"bh_edit", "bh_reply"})
              => calls[1] = [op |-> "answer", ok |-> TRUE]

\* C3 witness: a tap with an action tag other than "copy_value" was
\* acknowledged and then ignored.
C3_AckedUnknownTag ==
    /\ pc = "bh_done"
    /\ action # None /\ action # Some(COPY_VALUE)
    /\ copy_content # None
    /\ calls = <<[op |-> "answer", ok |-> TRUE]>>

\* The header lines of the three replies.
DATE_HEADER_START == <<"*", "*">> \o DATE_LABEL \o <<" ", "(">>
INVOICE_HEADER == <<"*", "*">> \o INVOICE_LABEL \o <<":", "*", "*", "\n">>
COST_HEADER == <<"*", "*">> \o COST_LABEL \o <<":", "*", "*", "\n">>

\* C4: at most one send of a notification is in flight, the replies in the
\* chat are those of the sends completed so far, and a notification with a
\* non-empty text whose sends all succeeded has exactly three replies, the
\* date, the invoice number and the cost price in this order, each a reply to
\* the inbound message.
C4_ThreeRepliesInOrder ==
    /\ Cardinality({r \in inflight : r.op = "reply_text"}) <= 1
    /\ InNotificationHandler =>
          LET replies == RepliesTo(message[1].message_id)
          IN  /\ Len(replies) =
                    Cardinality({k \in DOMAIN calls : calls[k].ok})
              /\ pc = "hn_await" =>
                    /\ Len(replies) = i - 1
                    /\ Cardinality(inflight) = 1
              /\ (pc = "hn_done" /\ message[1].text # <<>> /\ raised = None)
                    => /\ Len(replies) = 3
                       /\ StartsWith(replies[1].text, DATE_HEADER_START)
                       /\ StartsWith(replies[2].text, INVOICE_HEADER)
                       /\ StartsWith(replies[3].text, COST_HEADER)

\* C4 witness: the handler returned after three successful sends.
C4_AllSent ==
    /\ pc = "hn_done"
    /\ raised = None
    /\ message[1].text # <<>>
    /\ Len(calls) = 3
    /\ Len(RepliesTo(message[1].message_id)) = 3

\* C5: a reply of handle_notification_message has no button when its field
\* is the invoice number or the cost price and the value is the sentinel, and
\* otherwise exactly one button with the payload "copy_value|" + the value
\* displayed.
C5_ButtonRule ==
    (InNotificationHandler /\ messages_to_send # <<>>) =>
        LET replies == RepliesTo(message[1].message_id)
        IN  \A k \in 1..Len(replies) :
               LET value == messages_to_send[k][2]
               IN  /\ EndsWith(replies[k].text,
                               <<"\n", Backtick>> \o value \o <<Backtick>>)
                   /\ IF k \in {2, 3} /\ value = SENTINEL
                      THEN replies[k].reply_markup = None
                      ELSE replies[k].reply_markup =
                             Some(<<<<[text |-> BUTTON_LABEL,
                                       callback_data |->
                                          COPY_VALUE \o <<"|">> \o value]>>>>)

\* C5 witness: the three replies to a text without invoice number and price
\* were sent, the date with a button and the two others without.
C5_SentinelWithoutButton ==
    /\ pc = "hn_done"
    /\ Len(RepliesTo(message[1].message_id)) = 3
    /\ messages_to_send[2][2] = SENTINEL
    /\ RepliesTo(message[1].message_id)[1].reply_markup # None
    /\ RepliesTo(message[1].message_id)[2].reply_markup = None

\* "<check> Extracted Value", the confirmation line without bold markers.
PLAIN_CONFIRM_LINE ==
    <<CheckMark, " ", "E", "x", "t", "r", "a", "c", "t", "e", "d", " ", "V",
      "a", "l", "u", "e">>

\* "**Invoice Number:**"
INVOICE_BOLD_HEADER == <<"*", "*">> \o INVOICE_LABEL \o <<":", "*", "*">>

\* "copy_value|XY9"
PAYLOAD_XY9 == COPY_VALUE \o <<"|", "X", "Y", "9">>

\* h has the form of a bold span within one line.
BoldSpan(h) ==
    /\ Len(h) >= 4
    /\ h[1] = "*" /\ h[2] = "*" /\ h[Len(h) - 1] = "*" /\ h[Len(h)] = "*"
    /\ \A k \in 1..Len(h) : h[k] # "\n"

\* h is the leading bold header of text: its shortest prefix that is a bold
\* span, or the empty string when no prefix is one.
LeadingBoldHeader(text, h) ==
    LET spans == {e \in 1..Len(text) : BoldSpan(SubSeq(text, 1, e))}
    IN  IF spans = {} THEN h = <<>>
        ELSE /\ h = SubSeq(text, 1, Len(h))
             /\ Len(h) \in spans
             /\ \A e \in spans : Len(h) <= e

\* The text of the claim for header h, value v and the given confirmation
\* line.
ConfirmedText(h, v, line) ==
    h \o <<"\n", Backtick>> \o v \o <<Backtick, "\n", "\n">> \o line

\* The edit of a valid tap writes the text composed with the given
\* confirmation line and removes the button.
EditWrites(line) ==
    /\ pc = "bh_edit" =>
          \E r \in inflight :
             /\ r.op = "edit_message_text"
             /\ r.message_id = TappedId
             /\ r.reply_markup = None
             /\ \E n \in 0..Len(query[1].message.text) :
                   LET h == SubSeq(query[1].message.text, 1, n)
                       v == Tail1(query[1].data, Len(COPY_VALUE) + 2)
                   IN  /\ LeadingBoldHeader(query[1].message.text, h)
                       /\ r.text = ConfirmedText(h, v, line)
             /\ (/\ query[1].data = PAYLOAD_XY9
                 /\ StartsWith(query[1].message.text,
                               INVOICE_BOLD_HEADER \o <<"\n">>))
                => r.text = INVOICE_BOLD_HEADER
                            \o <<"\n", Backtick, "X", "Y", "9", Backtick,
                                 "\n", "\n">> \o line
    /\ (pc = "bh_done" /\ Did("edit_message_text", TRUE)) =>
          /\ chat[TappedId].reply_markup = None
          /\ EndsWith(chat[TappedId].text, <<"\n", "\n">> \o line)

\* C6 as claimed: the edit of a valid tap writes the leading bold header of
\* the tapped message (empty when there is none), a newline, the value in a
\* code span, a blank line and the line "<check> Extracted Value", and
\* removes the button.
C6_PlainConfirmation == EditWrites(PLAIN_CONFIRM_LINE)

\* C6 as amended: the same text, with the confirmation line in bold
\* markers, "<check> **Extracted Value**".
C6_BoldConfirmation == EditWrites(CONFIRM_LINE)

\* C6 witness: the edit for the tap "copy_value|XY9" on the invoice reply is
\* in flight.
C6_EditOfInvoiceReply ==
    /\ pc = "bh_edit"
    /\ query[1].data = PAYLOAD_XY9
    /\ HeaderOf(query[1].message.text) = INVOICE_BOLD_HEADER

\* The reply has been rewritten to the confirmed state.
Acknowledged(m) ==
    /\ m.via = "reply"
    /\ m.reply_markup = None
    /\ EndsWith(m.text, CONFIRM_LINE)

\* C7: a reply changes only by moving from Pending (it has its button) to
\* Acknowledged (no button, confirmation shown); an acknowledged reply never
\* gets a button or another text.
C7_AcknowledgedIsTerminal ==
    [][\A m \in DOMAIN chat :
          chat[m].via = "reply" =>
             \/ chat'[m] = chat[m]
             \/ chat[m].reply_markup # None /\ Acknowledged(chat'[m])]_vars

\* C7 witness: the edit of a second tap is in flight for a reply that the
\* first tap has already rewritten.
C7_StaleTapOnAcknowledged ==
    /\ pc = "bh_edit"
    /\ Acknowledged(chat[TappedId])

\* C8: a value without a pipe, encoded by handle_notification_message into
\* the payload "copy_value|" + value, is decoded by button_handler to the
\* action tag "copy_value" and exactly the value.
C8_PayloadRoundTrip ==
    (/\ pc \in {"bh_edit", "bh_reply", "bh_done"}
     /\ Did("answer", TRUE)
     /\ chat[TappedId].via = "reply"
     /\ chat[TappedId].reply_to = message[1].message_id)
    => LET v == messages_to_send[TappedId - message[1].message_id][2]
       IN  ~Contains(v, <<"|">>) =>
              /\ action = Some(COPY_VALUE)
              /\ copy_content = Some(v)
              /\ raised # Some("IndexError")

\* C8 witness: the tap on the reply with the value "7A" was decoded.
C8_DecodedValue ==
    /\ pc = "bh_done"
    /\ messages_to_send[1][2] = <<"7", "A">>
    /\ copy_content = Some(<<"7", "A">>)

\* C9: the date reply is labelled "Original Message Date (Metadata)" and
\* carries the forward date when there is one, is labelled "Original Message
\* Date (Fallback)" and carries the received date otherwise, and its value
\* is never the sentinel.
C9_DateLabel ==
    (InNotificationHandler /\ messages_to_send # <<>>) =>
        LET d == messages_to_send[1]
            replies == RepliesTo(message[1].message_id)
        IN  /\ d[2] # SENTINEL
            /\ message[1].forward_date = Some(ORIGIN_AT) =>
                  /\ d[1] = DATE_LABEL \o <<" ", "(", "M", "e", "t", "a", "d",
                                           "a", "t", "a", ")">>
                  /\ d[2] = <<"2", "0", "2", "3", "-", "1", "2", "-", "3",
                              "1", " ", "2", "3", ":", "5", "9", ":", "0",
                              "7">>
            /\ message[1].forward_date = None =>
                  /\ d[1] = DATE_LABEL \o <<" ", "(", "F", "a", "l", "l", "b",
                                           "a", "c", "k", ")">>
                  /\ d[2] = <<"2", "0", "2", "4", "-", "0", "1", "-", "0",
                              "1", " ", "0", "0", ":", "0", "0", ":", "0",
                              "0">>
            /\ message[1].forward_date \in {None, Some(ORIGIN_AT)}
            /\ Len(replies) >= 1 =>
                  replies[1].text =
                     <<"*", "*">> \o d[1] \o <<":", "*", "*", "\n", Backtick>>
                     \o d[2] \o <<Backtick>>

\* C9 witness: the date reply of a forwarded notification was sent.
C9_MetadataDateSent ==
    /\ pc = "hn_done"
    /\ message[1].forward_date # None
    /\ Len(RepliesTo(message[1].message_id)) >= 1

\* "75800"
VALUE_75800 == <<"7", "5", "8", "0", "0">>

\* The positions of text at which "75,800 <riel>" occurs.
PriceOccurrences(text) ==
    {p \in 1..(Len(text) - Len(TEXT_PRICE) + 1) :
        SubSeq(text, p, p + Len(TEXT_PRICE) - 1) = TEXT_PRICE}

\* C10 as claimed: for every text that contains "75,800 <riel>" the cost
\* price is found with the value "75800".
C10_AnyTextWithPrice ==
    (messages_to_send # <<>> /\ PriceOccurrences(message[1].text) # {})
    => messages_to_send[3] = <<COST_LABEL, VALUE_75800>>

\* C10 as amended: for every text in which an occurrence of "75,800 <riel>"
\* is the leftmost match of the cost pattern (no amount matches from an
\* earlier position, as one does when a digit precedes the occurrence) the
\* cost price is found with the value "75800".
C10_LeftmostPrice ==
    (/\ messages_to_send # <<>>
     /\ \E p \in PriceOccurrences(message[1].text) :
           \A s \in 1..(p - 1) : s \notin CostStarts(message[1].text))
    => messages_to_send[3] = <<COST_LABEL, VALUE_75800>>

\* C10 witness: a text with the price after a comma and a space, and with a
\* digit behind it, was handled.
C10_PriceAfterComma ==
    /\ pc = "hn_done"
    /\ message[1].text = <<",", " ">> \o TEXT_PRICE \o <<"1">>
    /\ messages_to_send[3][2] = VALUE_75800

\* The message is one the notification handler's filter is meant to keep
\* out: its sender is not the notification bot, or its text is a command.
Foreign(m) == m.from_user # SOURCE_BOT_ID \/ FilterCOMMAND(m)

\* The messages of the chat sent in answer to message id, whoever sent them.
AnswersTo(id) == SelectSeq(chat, LAMBDA x : x.reply_to = id)

\* C11: a message whose sender is not the configured notification bot, or
\* whose text is a command, is never the message handle_notification_message
\* runs on and gets no extraction reply; a /start command gets nothing but
\* the welcome text, at most once.
C11_ForeignMessagesNotExtracted ==
    \A id \in DOMAIN chat :
        (chat[id].via = "inbound" /\ Foreign(chat[id])) =>
            /\ RepliesTo(id) = <<>>
            /\ InNotificationHandler => message[1].message_id # id
            /\ \A r \in inflight : r.op = "reply_text" /\ r.reply_to = id
                                    => r.text = WELCOME
            /\ IF IsStartCommand(chat[id])
               THEN /\ Len(AnswersTo(id)) <= 1
                    /\ \A k \in DOMAIN AnswersTo(id) :
                          /\ AnswersTo(id)[k].text = WELCOME
                          /\ AnswersTo(id)[k].reply_markup = None
               ELSE AnswersTo(id) = <<>>

\* C11 witness: the text with an invoice number and a price arrived from
\* another sender and the dispatcher has passed it by.
C11_StrangerPassedBy ==
    /\ main = "run_polling"
    /\ pc = "idle"
    /\ chat[Len(chat)].via = "inbound"
    /\ chat[Len(chat)].from_user = STRANGER_ID
    /\ chat[Len(chat)].text = TEXT_ORDER

\* The token is missing: unset or empty.
TokenMissing == environ.TELEGRAM_BOT_TOKEN \in {None, Some(<<>>)}

\* The sender id is missing or no integer: unset, empty, or with a
\* character that no integer is written with.
SenderIdInvalid ==
    LET v == environ.PPWSA_NOTIFICATION_BOT_ID
    IN  \/ v = None
        \/ v[1] = <<>>
        \/ \E k \in DOMAIN v[1] :
              v[1][k] \notin Digits \cup Whitespace \cup {"+", "-", "_"}

\* C12: with the token missing or the sender id missing or not an integer,
\* main never registers a handler and never polls; when it has returned it
\* has logged exactly one configuration error; and no update is ever
\* handled: no handler has started, nothing was sent, and the chat is as it
\* was.
C12_BadConfigurationHandlesNothing ==
    (TokenMissing \/ SenderIdInvalid) =>
        /\ main \in {"entry", "returned"}
        /\ handlers = <<>>
        /\ main = "entry" => log = <<>>
        /\ main = "returned" =>
              /\ Len(log) = 1
              /\ log[1] \in {"Configuration Error: TELEGRAM_BOT_TOKEN",
                            "Configuration Error: PPWSA_NOTIFICATION_BOT_ID"}
        /\ pc = "idle"
        /\ received = 0
        /\ message = None
        /\ query = None
        /\ inflight = {}
        /\ calls = <<>>
        /\ chat = PRIOR_CHAT

\* C12 witness: the token is set, the sender id is not an integer, main has
\* returned, and a button tap is waiting that nothing will handle.
C12_TapNeverHandled ==
    /\ ~TokenMissing
    /\ environ.PPWSA_NOTIFICATION_BOT_ID = Some(<<"4", "x">>)
    /\ main = "returned"
    /\ pending # <<>>

\* The text has an invoice number: "P-" followed by an uppercase letter or a
\* digit.
InvoicePresent(t) ==
    \E s \in 1..(Len(t) - 2) :
        t[s] = "P" /\ t[s + 1] = "-" /\ t[s + 2] \in UpperLetters \cup Digits

\* The text has an amount: a digit, then whitespace or nothing, then the
\* riel sign.
AmountPresent(t) ==
    \E p \in 1..Len(t), q \in 1..Len(t) :
        /\ p < q
        /\ t[p] \in Digits
        /\ t[q] = Riel
        /\ \A k \in (p + 1)..(q - 1) : t[k] \in Whitespace

\* The value is one the claim allows for a field that was found: not empty,
\* no backtick in it, and not the sentinel.
FoundValue(v) ==
    /\ v # <<>>
    /\ v # SENTINEL
    /\ \A k \in DOMAIN v : v[k] # Backtick

\* C13: for every text the handler extracts from, the date is found and each
\* of invoice number and cost price is either not found, with exactly the
\* value "Pattern not found.", or found, with a value that is not empty and
\* has no backtick in it.
C13_SentinelOrCleanValue ==
    messages_to_send # <<>> =>
        /\ Len(messages_to_send) = 3
        /\ FoundValue(messages_to_send[1][2])
        /\ IF InvoicePresent(message[1].text)
           THEN FoundValue(messages_to_send[2][2])
           ELSE messages_to_send[2][2] = SENTINEL
        /\ IF AmountPresent(message[1].text)
           THEN FoundValue(messages_to_send[3][2])
           ELSE messages_to_send[3][2] = SENTINEL

\* C13 witness: a text with backticks inside its invoice number and its
\* amount was handled, and the values stop short of the backticks.
C13_BackticksInText ==
    /\ pc = "hn_done"
    /\ message[1].text = TEXT_TICKS
    /\ messages_to_send[2][2] = <<"A">>
    /\ messages_to_send[3][2] = <<"0">>

\* The position of the first "P-" of the text that an uppercase letter or a
\* digit follows.
FirstInvoiceAt(t) ==
    Min({s \in 1..(Len(t) - 2) :
            t[s] = "P" /\ t[s + 1] = "-"
            /\ t[s + 2] \in UpperLetters \cup Digits})

\* v is the longest run of uppercase letters and digits of t from position p.
MaximalRunAt(t, p, v) ==
    /\ Len(v) >= 1
    /\ p + Len(v) - 1 <= Len(t)
    /\ SubSeq(t, p, p + Len(v) - 1) = v
    /\ \A k \in DOMAIN v : v[k] \in UpperLetters \cup Digits
    /\ p + Len(v) <= Len(t) => t[p + Len(v)] \notin UpperLetters \cup Digits

\* The position of the first riel sign of t after position s.
FirstRielAfter(t, s) == Min({q \in s..Len(t) : t[q] = Riel})

\* C14: the invoice number is the longest run of uppercase letters and
\* digits behind the first "P-" that such a character follows, without the
\* prefix; the cost price is read at the leftmost position where the amount
\* pattern matches; and what follows the first match of a pattern changes
\* nothing: the text cut anywhere behind that match gives the same value.
\* The values are those of the list the handler has just built.
C14_LeftmostMatchOnly ==
    (pc = "hn_send" /\ i = 1) =>
        LET t == message[1].text
            invoice == messages_to_send[2][2]
            cost == messages_to_send[3][2]
        IN  /\ InvoicePresent(t) =>
                  /\ MaximalRunAt(t, FirstInvoiceAt(t) + 2, invoice)
                  /\ \A e \in (FirstInvoiceAt(t) + 1 + Len(invoice))..Len(t) :
                        InvoiceResult(SubSeq(t, 1, e))[2] = invoice
            /\ AmountPresent(t) =>
                  LET s == Min(CostStarts(t))
                  IN  /\ \E n \in 1..(Len(t) - s + 1) :
                             cost = StripCommas(SubSeq(t, s, s + n - 1))
                      /\ \A e \in FirstRielAfter(t, s)..Len(t) :
                             CostResult(SubSeq(t, 1, e))[2] = cost

\* C14 witness: the text "P-P-ABC1231", in which "P-" is followed by an
\* uppercase letter twice, was handled, and the value is the run behind the
\* first, "P".
C14_TwoOccurrences ==
    /\ pc = "hn_done"
    /\ message[1].text = <<"P", "-">> \o TEXT_INVOICE \o <<"1">>
    /\ messages_to_send[2][2] = <<"P">>

\* C15: when handle_notification_message is called on a message whose text
\* is empty, it returns at once: it builds no list, sends nothing, raises
\* nothing, and the chat has no answer to the message.
C15_EmptyTextNoOutput ==
    (InNotificationHandler /\ message[1].text = <<>>) =>
        /\ pc = "hn_done"
        /\ messages_to_send = <<>>
        /\ calls = <<>>
        /\ inflight = {}
        /\ raised = None
        /\ AnswersTo(message[1].message_id) = <<>>

\* C15 witness: the handler was called on the empty text and has returned.
C15_EmptyTextHandled ==
    /\ pc = "hn_done"
    /\ message # None
    /\ message[1].text = <<>>
    /\ chat[message[1].message_id].via = "inbound"

\* The number of times the running handler has attempted the call op:
\* completed calls and requests in flight.
Attempts(op) ==
    Cardinality({k \in DOMAIN calls : calls[k].op = op})
    + Cardinality({r \in inflight : r.op = op})

\* C16: handling one tap attempts the edit at most once and the fallback
\* send at most once, the fallback only after the edit has failed; handling
\* one notification attempts the send of each pair at most once: the k-th
\* attempt is the send of the k-th pair, and no attempt follows a failed one.
C16_NoRetries ==
    /\ InButtonHandler =>
          /\ Attempts("answer") <= 1
          /\ Attempts("edit_message_text") <= 1
          /\ Attempts("reply_text") <= 1
          /\ Attempts("reply_text") = 1 =>
                \E k \in DOMAIN calls :
                    /\ calls[k] = [op |-> "edit_message_text", ok |-> FALSE]
                    /\ \A j \in DOMAIN calls :
                          calls[j].op = "reply_text" => k < j
    /\ InNotificationHandler =>
          /\ Attempts("reply_text") <= Len(messages_to_send)
          /\ Attempts("reply_text") = Len(calls) + Cardinality(inflight)
          /\ Cardinality(inflight) <= 1
          /\ \A k \in DOMAIN calls : ~calls[k].ok => k = Len(calls)
          /\ \A r \in inflight :
                LET pair == messages_to_send[Len(calls) + 1]
                IN  r.text = InitialDisplay(pair[1], pair[2])
          /\ (calls # <<>> /\ ~calls[Len(calls)].ok) =>
                pc = "hn_done" /\ inflight = {}

\* C16 witness: a tap was handled whose edit failed and whose fallback send
\* failed too, and the handler has ended after these two attempts.
C16_BothAttemptsFailed ==
    /\ pc = "bh_done"
    /\ calls = <<[op |-> "answer", ok |-> TRUE],
                 [op |-> "edit_message_text", ok |-> FALSE],
                 [op |-> "reply_text", ok |-> FALSE]>>
    /\ inflight = {}

\* What handle_notification_message sends for a notification, computed from
\* the notification's text and its two timestamps and from nothing else: the
\* text and the keyboard of each of the three replies.
RepliesFor(msg) ==
    LET pairs == MessagesToSend([text |-> msg.text, date |-> msg.date,
                                 forward_date |-> msg.forward_date])
    IN  [k \in 1..3 |->
            [text |-> InitialDisplay(pairs[k][1], pairs[k][2]),
             reply_markup |-> ReplyMarkup(pairs[k][1], pairs[k][2])]]

\* C17: whatever notifications and taps came before, the replies sent for a
\* notification are those computed from the notification alone: each reply
\* in the chat and each request in flight has the text and the keyboard that
\* RepliesFor gives for its position.
C17_RepliesDependOnNotificationOnly ==
    (InNotificationHandler /\ message[1].text # <<>>) =>
        LET id == message[1].message_id
            sent == RepliesTo(id)
            expected == RepliesFor(message[1])
        IN  /\ Len(sent) <= 3
            /\ \A k \in DOMAIN sent :
                  /\ sent[k].text = expected[k].text
                  /\ sent[k].reply_markup = expected[k].reply_markup
            /\ \A r \in inflight :
                  /\ Len(sent) < 3
                  /\ r.reply_to = id
                  /\ r.text = expected[Len(sent) + 1].text
                  /\ r.reply_markup = expected[Len(sent) + 1].reply_markup

\* C17 witness: the same notification was handled twice in one run, a reply
\* to the first was acknowledged by a tap in between, and the second has its
\* three replies.
C17_SameNotificationAfterTap ==
    /\ pc = "hn_done"
    /\ received = 2
    /\ message[1].text = TEXT_ORDER
    /\ Len(RepliesTo(message[1].message_id)) = 3
    /\ \E id \in 1..(message[1].message_id - 1) :
          /\ chat[id].via = "inbound"
          /\ chat[id].text = TEXT_ORDER
          /\ \E k \in DOMAIN RepliesTo(id) : Acknowledged(RepliesTo(id)[k])

\* The confirmation message of the except clause for value v: the
\* confirmation line, then the value in backticks, and no header.
SeparateConfirmation(v) ==
    <<CheckMark, " ", "*", "*", "E", "x", "t", "r", "a", "c", "t", "e", "d",
      " ", "V", "a", "l", "u", "e", "*", "*", "\n", Backtick>>
    \o v \o <<Backtick>>

\* The fallback confirmations in the chat that answer message id.
FallbacksTo(id) ==
    SelectSeq(chat, LAMBDA x : x.via = "fallback" /\ x.reply_to = id)

\* C18: a failed edit changes nothing in the chat and is followed by exactly
\* one send, of the separate confirmation for the tapped payload's value;
\* that send, when it succeeds, adds the confirmation as one new message
\* behind the others, and whether it succeeds or not every message that was
\* in the chat, the tapped one with its text and its button included, is as
\* before. This holds for every tap, so for each later tap on the same
\* message as well.
C18_FailedEditLeavesMessagePending ==
    [][/\ (pc = "bh_edit" /\ pc' = "bh_reply") =>
             /\ chat' = chat
             /\ query[1].data = COPY_VALUE \o <<"|">> \o copy_content[1]
             /\ inflight' = {[op |-> "reply_text",
                              text |-> SeparateConfirmation(copy_content[1]),
                              reply_markup |-> None,
                              reply_to |-> TappedId]}
       /\ (pc = "bh_reply" /\ pc' = "bh_done") =>
             /\ SubSeq(chat', 1, Len(chat)) = chat
             /\ IF raised' = None
                THEN chat' = Append(chat,
                        [via |-> "fallback",
                         text |-> SeparateConfirmation(copy_content[1]),
                         reply_markup |-> None,
                         reply_to |-> TappedId])
                ELSE chat' = chat]_vars

\* C18 witness: two taps on the same reply both had their edit fail; the
\* reply still has its button and its first text, and two separate
\* confirmations answer it.
C18_TwoFallbacksForOneMessage ==
    /\ pc = "bh_done"
    /\ chat[TappedId].via = "reply"
    /\ chat[TappedId].reply_markup # None
    /\ chat[TappedId].text = query[1].message.text
    /\ Len(FallbacksTo(TappedId)) = 2

\* The start of the k-th reply of a notification: the bold label of the
\* date, of the invoice number, of the cost price.
ReplyHeaders == <<DATE_HEADER_START, INVOICE_HEADER, COST_HEADER>>

\* C19: at every moment the replies in the chat to a notification are a
\* prefix of (date, invoice number, cost price), tapped or not; and once a
\* send for the notification has failed, the handler has ended with the
\* error, nothing is in flight, and the replies are those sent before the
\* failure, fewer than three.
C19_RepliesFormPrefix ==
    /\ \A id \in DOMAIN chat :
          chat[id].via = "inbound" =>
             /\ Len(RepliesTo(id)) <= 3
             /\ \A k \in DOMAIN RepliesTo(id) :
                   StartsWith(RepliesTo(id)[k].text, ReplyHeaders[k])
    /\ (/\ InNotificationHandler
        /\ \E k \in DOMAIN calls : ~calls[k].ok) =>
             /\ pc = "hn_done"
             /\ raised # None
             /\ inflight = {}
             /\ ~calls[Len(calls)].ok
             /\ Len(RepliesTo(message[1].message_id)) = Len(calls) - 1
             /\ Len(RepliesTo(message[1].message_id)) < 3

\* C19 witness: the send of the invoice number failed after the date was
\* sent; the handler has ended and the date is the only reply.
C19_StoppedAfterDate ==
    /\ pc = "hn_done"
    /\ raised # None
    /\ Len(calls) = 2
    /\ Len(RepliesTo(message[1].message_id)) = 1
    /\ StartsWith(RepliesTo(message[1].message_id)[1].text, DATE_HEADER_START)

\* "**Cost Price:**"
COST_BOLD_HEADER == <<"*", "*">> \o COST_LABEL \o <<":", "*", "*">>

\* C20: the confirmed text that button_handler composes is a fixed point of
\* the rewrite: composed again from itself with the same value, it has the
\* same leading bold header as the original text and is the same text.
C20_RewriteIdempotent ==
    pc = "bh_edit" =>
        LET original_text == query[1].message.text
            once == new_text[1]
        IN  /\ once = NewText(original_text, copy_content[1])
            /\ HeaderOf(once) = HeaderOf(original_text)
            /\ NewText(once, copy_content[1]) = once

\* C20 witness: the confirmed text of a cost price reply has been composed
\* and its edit is in flight.
C20_CostReplyComposed ==
    /\ pc = "bh_edit"
    /\ HeaderOf(query[1].message.text) = COST_BOLD_HEADER
    /\ HeaderOf(new_text[1]) = COST_BOLD_HEADER
    /\ new_text[1] # query[1].message.text

====
